---- MODULE Spec2Model ----
(***************************************************************************)
(* Access control entries of timesketch/apps/sketch/models.py.             *)
(*                                                                         *)
(* One protected object (a Sketch or a Timeline: both delegate to the same *)
(* module-level ace_* functions) with its owner and its acl relation, the  *)
(* table of AccessControlEntry rows attached to it.  Callers invoke the    *)
(* ace_* functions; every database query of a function is one atomic step, *)
(* the Python statements between two queries belong to the step of the     *)
(* query that follows them.                                                *)
(***************************************************************************)
EXTENDS Integers, FiniteSets, Sequences, TLC

VARIABLES
    acl,      \* rows of AccessControlEntry attached to the object
    nextId,   \* next primary key the table hands out
    pc,       \* pc[p]: where caller p stands in the function it runs
    op,       \* op[p]: the call caller p runs, or ran last
    ace,      \* ace[p]: the local variable `ace` of caller p
    ret,      \* ret[p]: how caller p's last finished call ended
    callers,  \* the callers that run: all of them, or the single caller 1
    hist      \* observer of a single caller: the tables its calls started from

vars == <<acl, nextId, pc, op, ace, ret, callers, hist>>

-----------------------------------------------------------------------------
(* Bounds *)

NumUsers == 2       \* User rows 1..NumUsers; User(1) owns the object
MaxInitAces == 2    \* rows already in the table when a single caller starts
MaxSharedAces == 1  \* rows already in the table when concurrent callers start
MaxCreates == 2     \* rows make_public may add during a run
NumCallers == 2     \* concurrent callers (threads / requests)

-----------------------------------------------------------------------------
(* Python values *)

None == [class |-> "NoneType"]

User(n) == [class |-> "User", id |-> n]

Users == {User(n) : n \in 1..NumUsers}

\* Whoever may be passed as `user`: a User, or None (the `user` column is
\* nullable and None is what the public entry holds).
Actors == Users \cup {None}

\* object.owner
owner == User(1)

Callers == 1..NumCallers

\* An AccessControlEntry instance.  created/updated are never read.
AccessControlEntry(i, u, r, w, d) ==
    [class |-> "AccessControlEntry", id |-> i, user |-> u,
     permission_read |-> r, permission_write |-> w, permission_delete |-> d]

\* How a call ends.
ReturnBool(b) == [kind |-> "return", type |-> "bool", val |-> b]
ReturnNone == [kind |-> "return", type |-> "NoneType"]
ReturnSet(s) == [kind |-> "return", type |-> "set", val |-> s]
Raise(e) == [kind |-> "raise", exc |-> e]
NoResult == [kind |-> "none"]

IsTrue(o) == o.kind = "return" /\ o.type = "bool" /\ o.val
IsFalse(o) == o.kind = "return" /\ o.type = "bool" /\ ~o.val
Raised(o) == o.kind = "raise"

-----------------------------------------------------------------------------
(* QuerySet.get as the functions use it *)

DoesNotExist == [found |-> "DoesNotExist"]
MultipleObjectsReturned == [found |-> "MultipleObjectsReturned"]

\* get() over the rows that match the filter: the single row, or one of the
\* two exceptions.
acl_get(rows) ==
    IF rows = {} THEN DoesNotExist
    ELSE IF Cardinality(rows) = 1
         THEN [found |-> "one", obj |-> CHOOSE r \in rows : TRUE]
         ELSE MultipleObjectsReturned

\* Python attribute lookup on a model instance.
HasAttr(obj, name) == name \in DOMAIN obj

-----------------------------------------------------------------------------
(* The read-only functions, as functions of the table *)

\* ace_is_public: get(user=None, permission_read=True)
ace_is_public(store) ==
    LET r == acl_get({a \in store : a.user = None /\ a.permission_read})
    IN  CASE r = DoesNotExist -> ReturnBool(FALSE)
          [] r = MultipleObjectsReturned -> Raise("MultipleObjectsReturned")
          [] OTHER -> ReturnBool(TRUE)

\* ace_can_write as its comment words it ("or the object is public then write
\* access is granted"): a public object is writable by everybody.
ace_can_write_public(store, user) ==
    IF owner = user \/ IsTrue(ace_is_public(store)) THEN ReturnBool(TRUE)
    ELSE LET r == acl_get({a \in store : a.user = user /\ a.permission_write})
         IN  CASE r = DoesNotExist -> ReturnBool(FALSE)
               [] r = MultipleObjectsReturned -> Raise("MultipleObjectsReturned")
               [] OTHER -> ReturnBool(TRUE)

\* ace_can_write: owner, else get(user=user, permission_write=True)
ace_can_write(store, user) ==
    IF owner = user THEN ReturnBool(TRUE)
    ELSE LET r == acl_get({a \in store : a.user = user /\ a.permission_write})
         IN  CASE r = DoesNotExist -> ReturnBool(FALSE)
               [] r = MultipleObjectsReturned -> Raise("MultipleObjectsReturned")
               [] OTHER -> ReturnBool(TRUE)

\* The lookup without the test of permission_read: an entry is a grant.
can_read_lookup_any_entry(store, user) ==
    LET r == acl_get({a \in store : a.user = user})
    IN  CASE r = DoesNotExist -> ReturnBool(FALSE)
          [] r = MultipleObjectsReturned -> Raise("MultipleObjectsReturned")
          [] OTHER -> ReturnBool(TRUE)

\* ace_can_read, second query: get(user=user), then its permission_read
can_read_lookup(store, user) ==
    LET r == acl_get({a \in store : a.user = user})
    IN  CASE r = DoesNotExist -> ReturnBool(FALSE)
          [] r = MultipleObjectsReturned -> Raise("MultipleObjectsReturned")
          [] OTHER -> ReturnBool(r.obj.permission_read)

\* ace_can_read evaluated against one table state
ace_can_read(store, user) ==
    IF owner = user THEN ReturnBool(TRUE)
    ELSE LET pub == ace_is_public(store)
         IN  IF Raised(pub) THEN pub
             ELSE IF IsTrue(pub) THEN ReturnBool(TRUE)
             ELSE can_read_lookup(store, user)

\* Sketch.get_collaborators: the set the loop builds
get_collaborators(store) ==
    ReturnSet({a \in store : a.user # None /\ ~(a.user = owner)})

-----------------------------------------------------------------------------
(* Initial states *)

NoCall == [name |-> "none", user |-> None]

\* Tables of k rows with primary keys 1..k; permission_delete, which no
\* function reads, keeps its default.
RECURSIVE TablesOf(_)
TablesOf(k) ==
    IF k = 0 THEN {{}}
    ELSE {t \cup {AccessControlEntry(k, u, r, w, FALSE)} :
            t \in TablesOf(k - 1), u \in Actors, r \in BOOLEAN, w \in BOOLEAN}

\* Primary keys only tell rows apart, so of the tables that differ in nothing
\* but the order of insertion one is kept: None's rows first, then by user id.
Rank(u) == IF u = None THEN 0 ELSE u.id

Ordered(t) == \A a, b \in t : a.id < b.id => Rank(a.user) <= Rank(b.user)

TablesUpTo(n) == {t \in UNION {TablesOf(k) : k \in 0..n} : Ordered(t)}

Tables == TablesUpTo(MaxInitAces)

\* At most one row per (object, user).
Unique(store) == \A a, b \in store : a.user = b.user => a = b

MaxId == MaxInitAces + MaxCreates

\* The observer remembers the call before the current one when it was a
\* make_public: its arguments, how it ended and the table it started from.
NoPrev == [call |-> NoCall, ret |-> NoResult, before |-> {}]

InitWith(table, who) ==
    /\ acl = table
    /\ callers = who
    /\ nextId = Cardinality(table) + 1
    /\ pc = [p \in Callers |-> "idle"]
    /\ op = [p \in Callers |-> NoCall]
    /\ ace = [p \in Callers |-> None]
    /\ ret = [p \in Callers |-> NoResult]
    /\ hist = [before |-> table, prev |-> NoPrev]

\* Concurrent callers on a table that honours the one-row-per-user rule.
Init == \E table \in {t \in TablesUpTo(MaxSharedAces) : Unique(t)} : InitWith(table, Callers)

\* One caller, one call after the other, same tables.
InitSeq == \E table \in {t \in Tables : Unique(t)} : InitWith(table, {1})

\* One caller on any table the schema admits: class AccessControlEntry declares
\* no unique constraint over (content_type, object_id, user).
InitAny == \E table \in Tables : InitWith(table, {1})

-----------------------------------------------------------------------------
(* Calls *)

OpNames == {"is_public", "can_read", "can_write", "make_public",
            "make_private", "get_collaborators"}

\* is_public() and get_collaborators() take no user.
ArgsOf(name) == IF name \in {"is_public", "get_collaborators"} THEN {None} ELSE Actors

\* Calls of make_public that may still insert a row.
Inserting == {q \in Callers : pc[q] \in {"make_public", "make_public_get", "make_public_create"}}

Sequential == callers = {1}

\* Caller p runs and stands at `label`.
At(p, label) == p \in callers /\ pc[p] = label

\* A caller enters a function.  The observer shifts: what was the current
\* call becomes the previous one.
Call(p, name, user) ==
    /\ At(p, "idle")
    /\ name = "make_public" => nextId + Cardinality(Inserting) <= MaxId
    /\ pc' = [pc EXCEPT ![p] = name]
    /\ op' = [op EXCEPT ![p] = [name |-> name, user |-> user]]
    /\ ret' = [ret EXCEPT ![p] = NoResult]
    /\ hist' = IF Sequential
               THEN [before |-> acl,
                     prev |-> IF op[p].name = "make_public"
                              THEN [call |-> op[p], ret |-> ret[p], before |-> hist.before]
                              ELSE NoPrev]
               ELSE hist
    /\ UNCHANGED <<acl, nextId, ace, callers>>

\* The function returns or raises; its local `ace` is gone.
Finish(p, outcome) ==
    /\ pc' = [pc EXCEPT ![p] = "idle"]
    /\ ret' = [ret EXCEPT ![p] = outcome]
    /\ ace' = [ace EXCEPT ![p] = None]

\* The function goes on to its next query, `ace` bound to `obj`.
Goto(p, label, obj) ==
    /\ pc' = [pc EXCEPT ![p] = label]
    /\ ace' = [ace EXCEPT ![p] = obj]
    /\ UNCHANGED ret

\* ace_is_public
IsPublic(p) ==
    /\ At(p, "is_public")
    /\ Finish(p, ace_is_public(acl))
    /\ UNCHANGED <<acl, nextId, op, callers, hist>>

\* ace_can_write
CanWrite(p) ==
    /\ At(p, "can_write")
    /\ Finish(p, ace_can_write(acl, op[p].user))
    /\ UNCHANGED <<acl, nextId, op, callers, hist>>

\* ace_can_read up to the public check
CanRead(p) ==
    /\ At(p, "can_read")
    /\ LET pub == ace_is_public(acl)
       IN  IF owner = op[p].user THEN Finish(p, ReturnBool(TRUE))
           ELSE IF Raised(pub) THEN Finish(p, pub)
           ELSE IF IsTrue(pub) THEN Finish(p, ReturnBool(TRUE))
           ELSE Goto(p, "can_read_get", None)
    /\ UNCHANGED <<acl, nextId, op, callers, hist>>

\* ace_can_read, the lookup of the user's own entry
CanReadGet(p) ==
    /\ At(p, "can_read_get")
    /\ Finish(p, can_read_lookup(acl, op[p].user))
    /\ UNCHANGED <<acl, nextId, op, callers, hist>>

\* Sketch.get_collaborators
GetCollaborators(p) ==
    /\ At(p, "get_collaborators")
    /\ Finish(p, get_collaborators(acl))
    /\ UNCHANGED <<acl, nextId, op, callers, hist>>

-----------------------------------------------------------------------------
(* ace_make_public *)

\* The row object.acl.create(user=None, permission_read=True) inserts: the
\* other two flags take the field default, False.
public_ace(id) == AccessControlEntry(id, None, TRUE, FALSE, FALSE)

\* ace.save(): UPDATE of the row with the instance's primary key.
ace_save(store, obj) == {a \in store : a.id # obj.id} \cup {obj}

\* A delete on the relation instead of the instance: object.acl.all().delete()
ace_delete_all(store, obj) == {}

\* ace.delete(): DELETE of the row with the instance's primary key; a row that
\* is already gone deletes nothing.
ace_delete(store, obj) == {a \in store : a.id # obj.id}

\* What `if not ace.read: ace.permission_read = True; ace.save()` does with the
\* instance get(user=None) returned: the instance has no attribute `read`.
publish_found(store, obj) ==
    IF ~HasAttr(obj, "read")
    THEN [store |-> store, outcome |-> Raise("AttributeError")]
    ELSE IF ~obj.read
         THEN [store |-> ace_save(store, [obj EXCEPT !.permission_read = TRUE]),
               outcome |-> ReturnNone]
         ELSE [store |-> store, outcome |-> ReturnNone]

\* The gate of make_public: `if not ace_can_write(object, user): return`
MakePublicCheck(p) ==
    /\ At(p, "make_public")
    /\ LET allowed == ace_can_write(acl, op[p].user)
       IN  IF Raised(allowed) THEN Finish(p, allowed)
           ELSE IF ~IsTrue(allowed) THEN Finish(p, ReturnNone)
           ELSE Goto(p, "make_public_get", None)
    /\ UNCHANGED <<acl, nextId, op, callers, hist>>

\* ace = object.acl.get(user=None) and the branch on the instance found
MakePublicGet(p) ==
    /\ At(p, "make_public_get")
    /\ LET r == acl_get({a \in acl : a.user = None})
       IN  CASE r = DoesNotExist ->
                  /\ Goto(p, "make_public_create", None)
                  /\ UNCHANGED acl
             [] r = MultipleObjectsReturned ->
                  /\ Finish(p, Raise("MultipleObjectsReturned"))
                  /\ UNCHANGED acl
             [] OTHER ->
                  /\ acl' = publish_found(acl, r.obj).store
                  /\ Finish(p, publish_found(acl, r.obj).outcome)
    /\ UNCHANGED <<nextId, op, callers, hist>>

\* except ObjectDoesNotExist: object.acl.create(user=None, permission_read=True)
MakePublicCreate(p) ==
    /\ At(p, "make_public_create")
    /\ acl' = acl \cup {public_ace(nextId)}
    /\ nextId' = nextId + 1
    /\ Finish(p, ReturnNone)
    /\ UNCHANGED <<op, callers, hist>>

-----------------------------------------------------------------------------
(* ace_make_private *)

\* make_private without its gate.
MakePrivateCheck_ungated(p) ==
    /\ At(p, "make_private")
    /\ Goto(p, "make_private_get", None)
    /\ UNCHANGED <<acl, nextId, op, callers, hist>>

\* The gate of make_private.
MakePrivateCheck(p) ==
    /\ At(p, "make_private")
    /\ LET allowed == ace_can_write(acl, op[p].user)
       IN  IF Raised(allowed) THEN Finish(p, allowed)
           ELSE IF ~IsTrue(allowed) THEN Finish(p, ReturnNone)
           ELSE Goto(p, "make_private_get", None)
    /\ UNCHANGED <<acl, nextId, op, callers, hist>>

\* ace = object.acl.get(user=None)
MakePrivateGet(p) ==
    /\ At(p, "make_private_get")
    /\ LET r == acl_get({a \in acl : a.user = None})
       IN  CASE r = DoesNotExist ->
                  Finish(p, ReturnNone)
             [] r = MultipleObjectsReturned ->
                  Finish(p, Raise("MultipleObjectsReturned"))
             [] OTHER ->
                  Goto(p, "make_private_delete", r.obj)
    /\ UNCHANGED <<acl, nextId, op, callers, hist>>

\* ace.delete()
MakePrivateDelete(p) ==
    /\ At(p, "make_private_delete")
    /\ acl' = ace_delete(acl, ace[p])
    /\ Finish(p, ReturnNone)
    /\ UNCHANGED <<nextId, op, callers, hist>>

-----------------------------------------------------------------------------
(* Specifications *)

Next ==
    \E p \in Callers :
        \/ \E name \in OpNames : \E user \in ArgsOf(name) : Call(p, name, user)
        \/ IsPublic(p)
        \/ CanWrite(p)
        \/ CanRead(p)
        \/ CanReadGet(p)
        \/ GetCollaborators(p)
        \/ MakePublicCheck(p)
        \/ MakePublicGet(p)
        \/ MakePublicCreate(p)
        \/ MakePrivateCheck(p)
        \/ MakePrivateGet(p)
        \/ MakePrivateDelete(p)

\* Concurrent callers.
Spec == Init /\ [][Next]_vars

\* One caller, call after call.
SpecSeq == InitSeq /\ [][Next]_vars

\* One caller, on any table of the schema.
SpecAny == InitAny /\ [][Next]_vars

-----------------------------------------------------------------------------
(* What the claims speak of, written from their words *)

\* The call the single caller finished last.
Done(name) == Sequential /\ pc[1] = "idle" /\ op[1].name = name

PublicAces(store) == {a \in store : a.user = None}

\* "is_public": a public entry with permission_read.
IsPublicStore(store) == \E a \in store : a.user = None /\ a.permission_read

\* "owner, or a personal entry with permission_write"
MayWrite(store, u) == u = owner \/ \E a \in store : a.user = u /\ a.permission_write

\* "owner, or public, or a personal entry with permission_read"
MayRead(store, u) ==
    \/ u = owner
    \/ IsPublicStore(store)
    \/ \E a \in store : a.user = u /\ a.permission_read

\* The entries of users, as opposed to the public one.
PersonalAces(store) == {a \in store : a.user # None}

\* More than one entry for the pair (object, u).
Duplicated(store, u) == Cardinality({a \in store : a.user = u}) > 1

-----------------------------------------------------------------------------
(* C1 *)

\* C1: whatever the interleaving of concurrent make_public calls, the object
\* never has two public entries (user = None).
C1_AtMostOnePublicAce == Cardinality(PublicAces(acl)) <= 1

-----------------------------------------------------------------------------
(* C2 *)

\* C2: make_public called twice in a row by authorized actors on an object
\* without public entry: both calls return without error, the object has
\* exactly one public entry, is public after each call, and the second call
\* leaves the table as it found it.
C2_MakePublicTwice ==
    ( /\ Done("make_public")
      /\ hist.prev.call.name = "make_public"
      /\ PublicAces(hist.prev.before) = {}
      /\ MayWrite(hist.prev.before, hist.prev.call.user)
      /\ MayWrite(hist.before, op[1].user) )
    => /\ hist.prev.ret = ReturnNone
       /\ ret[1] = ReturnNone
       /\ Cardinality(PublicAces(acl)) = 1
       /\ IsPublicStore(hist.before)
       /\ IsPublicStore(acl)
       /\ acl = hist.before

-----------------------------------------------------------------------------
(* C3 *)

\* C3: on a table with at most one entry per (object, user), can_read returns
\* a boolean that is true exactly when the user is the owner, or the object
\* is public, or the user's own entry has permission_read; so a user whose
\* own entry has permission_read = False reads a public object.
C3_CanRead ==
    (Done("can_read") /\ Unique(hist.before))
    => /\ ret[1].kind = "return"
       /\ ret[1].type = "bool"
       /\ ret[1].val <=> MayRead(hist.before, op[1].user)

\* can_read returned True for user 2, whose own entry denies read, because the
\* object is public.
C3_Witness ==
    /\ Done("can_read")
    /\ op[1].user = User(2)
    /\ IsTrue(ret[1])
    /\ IsPublicStore(hist.before)
    /\ \E a \in hist.before : a.user = User(2) /\ ~a.permission_read

-----------------------------------------------------------------------------
(* C4 *)

-----------------------------------------------------------------------------
(* C5 *)

\* C5: make_public and make_private called by a user who is not the owner and
\* has no entry with permission_write return None without raising and leave
\* the table, and with it is_public, as it was.
C5_UnauthorizedIsNoop ==
    ( /\ Done("make_public") \/ Done("make_private")
      /\ Unique(hist.before)
      /\ ~MayWrite(hist.before, op[1].user) )
    => /\ ret[1] = ReturnNone
       /\ acl = hist.before
       /\ ace_is_public(acl) = ace_is_public(hist.before)

\* User 2, without write grant, called make_public on an object without
\* public entry and then make_private on a public object: both changed nothing.
C5_Witness ==
    /\ Done("make_private")
    /\ op[1].user = User(2)
    /\ ~MayWrite(hist.before, User(2))
    /\ IsPublicStore(acl)
    /\ ret[1] = ReturnNone
    /\ hist.prev.call = [name |-> "make_public", user |-> User(2)]
    /\ hist.prev.ret = ReturnNone

-----------------------------------------------------------------------------
(* C6 *)

\* C6: after make_public by the owner every actor, None included, may read,
\* and nobody who is neither the owner nor the holder of an entry with
\* permission_write may write.
C6_PublishedReadOnly ==
    (Done("make_public") /\ op[1].user = owner /\ Unique(hist.before))
    => \A a \in Actors :
          /\ IsTrue(ace_can_read(acl, a))
          /\ ~MayWrite(acl, a) => IsFalse(ace_can_write(acl, a))

-----------------------------------------------------------------------------
(* C7 *)

\* C7: make_public followed by make_private, both by authorized actors, on an
\* object that was not public: no public entry is left, is_public is False,
\* can_read is False for every actor that is not the owner and has no entry
\* granting read, and the users' entries are what they were; make_private on
\* an object without public entry returns without error and changes nothing.
C7_MakePrivateUndoes ==
    /\ ( /\ Done("make_private")
         /\ hist.prev.call.name = "make_public"
         /\ Unique(hist.prev.before)
         /\ ~IsPublicStore(hist.prev.before)
         /\ MayWrite(hist.prev.before, hist.prev.call.user)
         /\ MayWrite(hist.before, op[1].user) )
       => /\ ret[1] = ReturnNone
          /\ PublicAces(acl) = {}
          /\ IsFalse(ace_is_public(acl))
          /\ PersonalAces(acl) = PersonalAces(hist.prev.before)
          /\ \A a \in Actors :
                ~MayRead(hist.prev.before, a) => IsFalse(ace_can_read(acl, a))
    /\ ( /\ Done("make_private")
         /\ Unique(hist.before)
         /\ MayWrite(hist.before, op[1].user)
         /\ PublicAces(hist.before) = {} )
       => /\ ret[1] = ReturnNone
          /\ acl = hist.before

\* The owner published an object that had no public entry and an entry of
\* user 2, then made it private again: the public entry came and went.
C7_Witness ==
    /\ Done("make_private")
    /\ op[1].user = owner
    /\ hist.prev.call = [name |-> "make_public", user |-> owner]
    /\ hist.prev.ret = ReturnNone
    /\ PublicAces(hist.prev.before) = {}
    /\ IsPublicStore(hist.before)
    /\ PublicAces(acl) = {}
    /\ \E a \in acl : a.user = User(2)

-----------------------------------------------------------------------------
(* C8 *)

\* C8: get_collaborators returns the set of the distinct users, not the
\* entries, that hold an entry on the object, the owner and None left out.
C8_CollaboratorsAreUsers ==
    Done("get_collaborators")
    => /\ ret[1].kind = "return"
       /\ ret[1].type = "set"
       /\ ret[1].val = {a.user : a \in {x \in hist.before : x.user # None /\ x.user # owner}}

-----------------------------------------------------------------------------
(* C9 *)

\* The pair a call looks up first: is_public and can_read of a non-owner look
\* up the public entry; can_write, make_public and make_private of a non-owner
\* the user's entry, and of the owner (the two mutators) the public entry.
FirstLookup(call) ==
    CASE call.name = "is_public" -> {None}
      [] call.name = "can_read" -> IF call.user = owner THEN {} ELSE {None}
      [] call.name = "can_write" -> IF call.user = owner THEN {} ELSE {call.user}
      [] call.name \in {"make_public", "make_private"} ->
            IF call.user = owner THEN {None} ELSE {call.user}
      [] OTHER -> {}

\* C9: a call that looks up a pair for which the table holds more than one
\* entry raises MultipleObjectsReturned and leaves the table alone, whatever
\* the flags of the entries.
C9_DuplicatesAbort ==
    ( /\ Sequential
      /\ pc[1] = "idle"
      /\ \E u \in FirstLookup(op[1]) : Duplicated(hist.before, u) )
    => /\ ret[1] = Raise("MultipleObjectsReturned")
       /\ acl = hist.before

-----------------------------------------------------------------------------
(* C10 *)

\* C10: make_public by an authorized actor on an object whose public entry
\* has permission_read = False sets the flag of that entry and saves it: no
\* second public entry, and the object is public afterwards.
C10_RepublishSetsRead ==
    ( /\ Done("make_public")
      /\ Unique(hist.before)
      /\ MayWrite(hist.before, op[1].user)
      /\ \E a \in hist.before : a.user = None /\ ~a.permission_read )
    => /\ ret[1] = ReturnNone
       /\ acl = {IF a.user = None THEN [a EXCEPT !.permission_read = TRUE] ELSE a :
                   a \in hist.before}
       /\ Cardinality(PublicAces(acl)) = 1
       /\ IsTrue(ace_is_public(acl))

====
